---- MODULE Spec2Model ----
(***************************************************************************)
(* Model of mdbook-hide-feature (src/src/main.rs): the directive scanner   *)
(* (find_links / LinkIter / Link::from_capture), the resolver              *)
(* (Link::render_with_path), the brace-balance filter (filter_features)    *)
(* and the substitution engine (replace_all).                              *)
(*                                                                         *)
(* Texts are sequences of one-character strings.  Offsets are the 0-based  *)
(* byte offsets of the source (all modelled characters are ASCII), so the  *)
(* character at offset i of a text t is t[i + 1].                          *)
(***************************************************************************)
EXTENDS Integers, Sequences, FiniteSets, TLC

\* ------------------------------------------------------------------------
\* Bounds of the model
\* ------------------------------------------------------------------------
MaxFrags == 3
MaxLines == 4

\* ------------------------------------------------------------------------
\* Characters and slices
\* ------------------------------------------------------------------------
Lower == {"a", "b", "c", "d", "e", "f", "g", "h", "i", "j", "k", "l", "m",
          "n", "o", "p", "q", "r", "s", "t", "u", "v", "w", "x", "y", "z"}
Upper == {"A", "B", "C", "D", "E", "F", "G", "H", "I", "J", "K", "L", "M",
          "N", "O", "P", "Q", "R", "S", "T", "U", "V", "W", "X", "Y", "Z"}
Digit == {"0", "1", "2", "3", "4", "5", "6", "7", "8", "9"}

\* [a-zA-Z0-9]
AlnumChars == Lower \cup Upper \cup Digit
\* \s
SpaceChars == {" ", "\t", "\n", "\r", "\f"}
\* [a-zA-Z0-9\s_.\-:/\\]
TargetChars == AlnumChars \cup SpaceChars \cup {"_", ".", "-", ":", "/", "\\"}

\* &t[a..b]
Slice(t, a, b) == SubSeq(t, a + 1, b)
\* the character at offset i, "" past the end of the text
At(t, i) == IF i >= 0 /\ i < Len(t) THEN t[i + 1] ELSE ""
\* t starts with w at offset i
StartsWithAt(t, i, w) == i + Len(w) <= Len(t) /\ Slice(t, i, i + Len(w)) = w

\* end of the maximal run of characters of the class C that starts at offset i
RECURSIVE RunEnd(_, _, _)
RunEnd(t, i, C) == IF i < Len(t) /\ t[i + 1] \in C THEN RunEnd(t, i + 1, C) ELSE i

\* end of the maximal run of characters outside the class C that starts at offset i
RECURSIVE RunEndNot(_, _, _)
RunEndNot(t, i, C) == IF i < Len(t) /\ t[i + 1] \notin C THEN RunEndNot(t, i + 1, C) ELSE i

RECURSIVE Concat(_)
Concat(ss) == IF ss = <<>> THEN <<>> ELSE Head(ss) \o Concat(Tail(ss))

RECURSIVE Sum(_)
Sum(ns) == IF ns = <<>> THEN 0 ELSE Head(ns) + Sum(Tail(ns))

SetMax(S) == CHOOSE x \in S : \A y \in S : y <= x
SetMin(S) == CHOOSE x \in S : \A y \in S : x <= y

\* ------------------------------------------------------------------------
\* Directive scanner: the pattern RE of find_links
\* ------------------------------------------------------------------------
NoMatch == [matched |-> FALSE]

KindIncludeHideTest ==
    <<"i", "n", "c", "l", "u", "d", "e", "h", "i", "d", "e", "t", "e", "s", "t">>

\* first alternative at offset p:  \\\{\{\#.*\}\}   (.* is greedy and stays on the line)
MatchEscaped(t, p) ==
    IF StartsWithAt(t, p, <<"\\", "{", "{", "#">>)
    THEN LET lineEnd == RunEndNot(t, p + 4, {"\n"})   \* . matches all but the line feed
             closers == {q \in (p + 4)..(lineEnd - 2) : At(t, q) = "}" /\ At(t, q + 1) = "}"}
         IN  IF closers = {} THEN NoMatch
             ELSE [matched |-> TRUE, start |-> p, end |-> SetMax(closers) + 2,
                   groups |-> FALSE, typ |-> <<>>, rest |-> <<>>]
    ELSE NoMatch

\* second alternative at offset p:
\*   \{\{\s*\#([a-zA-Z0-9]+)\s+([a-zA-Z0-9\s_.\-:/\\]+)\s*\}\}
MatchLink(t, p) ==
    IF StartsWithAt(t, p, <<"{", "{">>)
    THEN LET hash     == RunEnd(t, p + 2, SpaceChars)
             typStart == hash + 1
             typEnd   == RunEnd(t, typStart, AlnumChars)
             sepEnd   == RunEnd(t, typEnd, SpaceChars)
             restEnd  == RunEnd(t, sepEnd, TargetChars)
             \* \s+ gives one character back when nothing but whitespace precedes }}
             restStart == IF restEnd > sepEnd THEN sepEnd ELSE sepEnd - 1
         IN  IF /\ At(t, hash) = "#"
                /\ typStart <= Len(t)
                /\ typEnd > typStart
                /\ sepEnd > typEnd
                /\ restStart > typEnd
                /\ At(t, restEnd) = "}"
                /\ At(t, restEnd + 1) = "}"
             THEN [matched |-> TRUE, start |-> p, end |-> restEnd + 2,
                   groups |-> TRUE, typ |-> Slice(t, typStart, typEnd),
                   rest |-> Slice(t, restStart, restEnd)]
             ELSE NoMatch
    ELSE NoMatch

\* the pattern at offset p: the escaped alternative is tried first
MatchAt(t, p) ==
    LET esc == MatchEscaped(t, p)
    IN  IF esc.matched THEN esc ELSE MatchLink(t, p)

\* CaptureMatches::next: the leftmost match at or after offset pos
RECURSIVE NextCapture(_, _)
NextCapture(t, pos) ==
    IF pos >= Len(t) THEN NoMatch
    ELSE LET m == MatchAt(t, pos)
         IN  IF m.matched THEN m ELSE NextCapture(t, pos + 1)

\* str::split_whitespace().next()
FirstToken(w) ==
    LET a == RunEnd(w, 0, SpaceChars)
    IN  Slice(w, a, RunEndNot(w, a, SpaceChars))

NoLink == [some |-> FALSE]

\* from_capture that accepts every link type
from_capture_AnyKind(t, cap) ==
    IF cap.groups /\ FirstToken(cap.rest) # <<>>
    THEN [some |-> TRUE, start_index |-> cap.start, end_index |-> cap.end,
          link |-> FirstToken(cap.rest), link_text |-> Slice(t, cap.start, cap.end)]
    ELSE NoLink

\* Link::from_capture
from_capture(t, cap) ==
    IF cap.groups /\ cap.typ = KindIncludeHideTest /\ FirstToken(cap.rest) # <<>>
    THEN [some |-> TRUE, start_index |-> cap.start, end_index |-> cap.end,
          link |-> FirstToken(cap.rest), link_text |-> Slice(t, cap.start, cap.end)]
    ELSE NoLink

\* LinkIter::next from the iterator position pos: the next capture that
\* from_capture accepts, and the position of the iterator afterwards
RECURSIVE LinkIterNext(_, _)
LinkIterNext(t, pos) ==
    LET cap == NextCapture(t, pos)
    IN  IF ~cap.matched THEN [item |-> NoLink, pos |-> Len(t)]
        ELSE IF from_capture(t, cap).some
             THEN [item |-> from_capture(t, cap), pos |-> cap.end]
             ELSE LinkIterNext(t, cap.end)

\* find_links collected: every Link the iterator yields for t
RECURSIVE LinksFrom(_, _)
LinksFrom(t, pos) ==
    LET n == LinkIterNext(t, pos)
    IN  IF n.item.some THEN <<n.item>> \o LinksFrom(t, n.pos) ELSE <<>>

find_links(t) == LinksFrom(t, 0)

\* ------------------------------------------------------------------------
\* Brace-balance filter: filter_features
\* ------------------------------------------------------------------------
FeatureTest == <<"t", "e", "s", "t">>

\* the literal tail of re_start:  \[cfg\(feature = "{}"\)\]
CfgAttr(feature_name) ==
    <<"[", "c", "f", "g", "(", "f", "e", "a", "t", "u", "r", "e", " ", "=", " ", "\"">>
        \o feature_name \o <<"\"", ")", "]">>

\* re_start.is_match(line):  ^\s*#\s*\[cfg\(feature = "{}"\)\]
re_start(line, feature_name) ==
    LET hash == RunEnd(line, 0, SpaceChars)
    IN  /\ At(line, hash) = "#"
        /\ StartsWithAt(line, RunEnd(line, hash + 1, SpaceChars), CfgAttr(feature_name))

\* line.matches(ch).count()
CountChar(line, ch) == Cardinality({i \in 1..Len(line) : line[i] = ch})

\* one item of str::lines(): the text up to the line feed, without the
\* carriage return that precedes the line feed
StripCR(line) ==
    IF line # <<>> /\ line[Len(line)] = "\r" THEN Slice(line, 0, Len(line) - 1) ELSE line

\* str::lines()
RECURSIVE Lines(_)
Lines(t) ==
    IF t = <<>> THEN <<>>
    ELSE LET nl == RunEndNot(t, 0, {"\n"})
         IN  IF nl = Len(t) THEN <<t>>
             ELSE <<StripCR(Slice(t, 0, nl))>> \o Lines(Slice(t, nl + 1, Len(t)))

\* format!("# {line}")
Prefixed(line) == <<"#", " ">> \o line

\* State of the loop of filter_features.  brace_count is a usize: the model
\* keeps the representative of its value modulo 2^64 that is nearest to 0, so
\* a negative brace_count -k stands for the wrapped value 2^64 - k.  With
\* overflow checks (debug profile) the subtraction panics instead of wrapping.
FilterStart == [skip |-> FALSE, brace_count |-> 0, result |-> <<>>, panicked |-> FALSE]

\* FilterLine that forgets to subtract the closing braces
FilterLine_NoCloseCount(st, line, feature_name, checks) ==
    IF st.skip
    THEN LET opened == st.brace_count + CountChar(line, "{")
         IN  [st EXCEPT !.brace_count = opened,
                        !.skip = (opened # 0),
                        !.result = st.result \o Prefixed(line) \o <<"\n">>]
    ELSE IF re_start(line, feature_name)
         THEN [st EXCEPT !.skip = TRUE,
                         !.result = st.result \o Prefixed(line) \o <<"\n">>]
         ELSE [st EXCEPT !.result = st.result \o line \o <<"\n">>]

\* FilterLine that ends the block only on a line that closes a brace
FilterLine_CloseNeedsBrace(st, line, feature_name, checks) ==
    IF st.skip
    THEN LET opened == st.brace_count + CountChar(line, "{")
             closed == opened - CountChar(line, "}")
         IN  IF checks /\ closed < 0
             THEN [st EXCEPT !.panicked = TRUE]
             ELSE [st EXCEPT !.brace_count = closed,
                             !.skip = ~(closed = 0 /\ CountChar(line, "}") > 0),
                             !.result = st.result \o Prefixed(line) \o <<"\n">>]
    ELSE IF re_start(line, feature_name)
         THEN [st EXCEPT !.skip = TRUE,
                         !.result = st.result \o Prefixed(line) \o <<"\n">>]
         ELSE [st EXCEPT !.result = st.result \o line \o <<"\n">>]

\* the body of `for line in contents.lines()`
FilterLine(st, line, feature_name, checks) ==
    IF st.skip
    THEN LET opened == st.brace_count + CountChar(line, "{")
             closed == opened - CountChar(line, "}")
         IN  IF checks /\ closed < 0
             THEN [st EXCEPT !.panicked = TRUE]
             ELSE [st EXCEPT !.brace_count = closed,
                             !.skip = (closed # 0),
                             !.result = st.result \o Prefixed(line) \o <<"\n">>]
    ELSE IF re_start(line, feature_name)
         THEN [st EXCEPT !.skip = TRUE,
                         !.result = st.result \o Prefixed(line) \o <<"\n">>]
         ELSE [st EXCEPT !.result = st.result \o line \o <<"\n">>]

RECURSIVE FilterLoop(_, _, _, _)
FilterLoop(st, lines, feature_name, checks) ==
    IF lines = <<>> \/ st.panicked THEN st
    ELSE FilterLoop(FilterLine(st, Head(lines), feature_name, checks),
                    Tail(lines), feature_name, checks)

\* filter_features(contents, feature_name) under a build profile
filter_features(contents, feature_name, checks) ==
    FilterLoop(FilterStart, Lines(contents), feature_name, checks)

\* ------------------------------------------------------------------------
\* Inputs: source texts, the files under the resolution base, filter inputs
\* ------------------------------------------------------------------------
Directive(path) ==
    <<"{", "{", "#">> \o KindIncludeHideTest \o <<" ">> \o path \o <<"}", "}">>

\* {{ #includehidetest d e }} : inner whitespace, a path and one property
DirectiveProps ==
    <<"{", "{", " ", "#">> \o KindIncludeHideTest \o <<" ", "d", " ", "e", " ", "}", "}">>

\* {{#unknownkind c}}
DirectiveUnknown ==
    <<"{", "{", "#", "u", "n", "k", "n", "o", "w", "n", "k", "i", "n", "d", " ", "c", "}", "}">>

\* #[cfg(feature = "test")]
MarkerLine == <<"#">> \o CfgAttr(FeatureTest)

\* The files that exist under the resolution base, by relative path.
\*   a : a file whose text is itself a directive (for b), no final line feed
\*   d : an empty file
\*   e : a marker line and a block that is opened and never closed
\*   f : a marker line followed by a closing brace
\* No file exists at b or c.
Files ==
    (<<"a">> :> Directive(<<"b">>)) @@
    (<<"d">> :> <<>>) @@
    (<<"e">> :> (MarkerLine \o <<"\n", "{", "\n">>)) @@
    (<<"f">> :> (MarkerLine \o <<"\n", "}", "\n">>))

SrcFrags ==
    { <<"\\">>, <<"x">>, <<"\n">>, <<"{", "{">>, <<"}", "}">>,
      Directive(<<"a">>), Directive(<<"b">>), Directive(<<"e">>), Directive(<<"f">>),
      DirectiveProps, DirectiveUnknown }

SourceTexts ==
    {Concat(fr) : fr \in UNION {[1..n -> SrcFrags] : n \in 0..MaxFrags}}

\* ------------------------------------------------------------------------
\* Directive resolver: Link::render_with_path
\* ------------------------------------------------------------------------
\* std::fs::read_to_string(base.join(pat)): the io::Error of a failed read
\* carries the OS error only; `?` turns it into an anyhow::Error without
\* attaching any context.
read_to_string(path) ==
    IF path \in DOMAIN Files
    THEN [ok |-> TRUE, contents |-> Files[path]]
    ELSE [ok |-> FALSE, error |-> [os_error |-> "NotFound", context |-> <<>>]]

\* render_with_path that swallows a failed read and renders nothing
render_with_path_SwallowError(lnk, checks) ==
    LET rd == read_to_string(lnk.link)
    IN  IF ~rd.ok
        THEN [tag |-> "Ok", text |-> <<>>, reads |-> <<[path |-> lnk.link, ok |-> FALSE]>>]
        ELSE LET f == filter_features(rd.contents, FeatureTest, checks)
             IN  IF f.panicked
                 THEN [tag |-> "Panic", reads |-> <<[path |-> lnk.link, ok |-> TRUE]>>]
                 ELSE [tag |-> "Ok", text |-> f.result,
                       reads |-> <<[path |-> lnk.link, ok |-> TRUE]>>]

\* render_with_path that scans the text it rendered and reads the files of
\* the links found there
render_with_path_Rescan(lnk, checks) ==
    LET rd == read_to_string(lnk.link)
    IN  IF ~rd.ok
        THEN [tag |-> "Err", error |-> rd.error,
              reads |-> <<[path |-> lnk.link, ok |-> FALSE]>>]
        ELSE LET f == filter_features(rd.contents, FeatureTest, checks)
                 nested == find_links(f.result)
             IN  IF f.panicked
                 THEN [tag |-> "Panic", reads |-> <<[path |-> lnk.link, ok |-> TRUE]>>]
                 ELSE [tag |-> "Ok", text |-> f.result,
                       reads |-> <<[path |-> lnk.link, ok |-> TRUE]>> \o
                                 [i \in 1..Len(nested) |->
                                    [path |-> nested[i].link,
                                     ok |-> read_to_string(nested[i].link).ok]]]

\* outcome of Link::render_with_path: Ok(text), Err(error) or a panic of the
\* filter; reads lists the calls of read_to_string it made
render_with_path(lnk, checks) ==
    LET rd == read_to_string(lnk.link)
    IN  IF ~rd.ok
        THEN [tag |-> "Err", error |-> rd.error,
              reads |-> <<[path |-> lnk.link, ok |-> FALSE]>>]
        ELSE LET f == filter_features(rd.contents, FeatureTest, checks)
             IN  IF f.panicked
                 THEN [tag |-> "Panic", reads |-> <<[path |-> lnk.link, ok |-> TRUE]>>]
                 ELSE [tag |-> "Ok", text |-> f.result,
                       reads |-> <<[path |-> lnk.link, ok |-> TRUE]>>]

\* ------------------------------------------------------------------------
\* Inputs of the filter
\* ------------------------------------------------------------------------
\*   # [cfg(feature = "test")] {   : a marker line with inner whitespace that
\* also opens a brace
MarkerBraceLine ==
    <<" ", "#", " ">> \o CfgAttr(FeatureTest) \o <<" ", "{">>

FilterLineSet ==
    { MarkerLine, MarkerBraceLine, <<"{">>, <<"}">>, <<"x">>, <<"{", "{", "}">> }

RECURSIVE JoinLines(_)
JoinLines(ls) ==
    IF ls = <<>> THEN <<>>
    ELSE IF Len(ls) = 1 THEN Head(ls)
    ELSE Head(ls) \o <<"\n">> \o JoinLines(Tail(ls))

\* the scenario of the six-line file
ScenarioLines ==
    << <<"f", "n", " ", "a", "(", ")", " ", "{", "}">>,
       MarkerLine,
       <<"f", "n", " ", "b", "(", ")", " ", "{">>,
       <<" ", " ", " ", " ", "a", "s", "s", "e", "r", "t", "!", "(", "t", "r", "u", "e", ")", ";">>,
       <<"}">>,
       <<"f", "n", " ", "c", "(", ")", " ", "{", "}">> >>

Scenario == JoinLines(ScenarioLines) \o <<"\n">>

LineEndings == { <<>>, <<"\n">>, <<"\r", "\n">> }

FilterInputs ==
    {JoinLines(ls) \o fin :
        ls \in UNION {[1..n -> FilterLineSet] : n \in 0..MaxLines},
        fin \in LineEndings}
    \cup {Scenario}

\* ------------------------------------------------------------------------
\* State
\* ------------------------------------------------------------------------
VARIABLES
    overflow_checks,     \* build profile: TRUE when arithmetic overflow panics
    \* replace_all(s, path)
    s,                   \* the source text
    pc,                  \* "idle", "loop", "done" (returned) or "panicked"
    previous_end_index,  \* the cursor
    replaced,            \* the output under construction
    links,               \* position of the LinkIter of find_links(s)
    reads,               \* the calls of read_to_string so far: [path, ok]
    returned,            \* the value replace_all returned
    \* filter_features(contents, "test")
    contents,            \* the text being filtered
    fpc,                 \* "idle", "loop", "done" (returned) or "panicked"
    lineno,              \* number of lines the loop has consumed
    skip,
    brace_count,
    result               \* the output under construction, returned at the end

vars == <<overflow_checks, s, pc, previous_end_index, replaced, links, reads, returned,
          contents, fpc, lineno, skip, brace_count, result>>

engineVars == <<s, pc, previous_end_index, replaced, links, reads, returned>>
filterVars == <<contents, fpc, lineno, skip, brace_count, result>>

NotReturned == [tag |-> "None"]

EngineIdle ==
    /\ s = <<>> /\ pc = "idle" /\ previous_end_index = 0 /\ replaced = <<>>
    /\ links = 0 /\ reads = <<>> /\ returned = NotReturned

FilterIdle ==
    /\ contents = <<>> /\ fpc = "idle" /\ lineno = 0 /\ skip = FALSE
    /\ brace_count = 0 /\ result = <<>>

\* ------------------------------------------------------------------------
\* replace_all
\* ------------------------------------------------------------------------
\* entry of replace_all(s, path)
Init ==
    /\ overflow_checks \in BOOLEAN
    /\ s \in SourceTexts
    /\ pc = "loop"
    /\ previous_end_index = 0
    /\ replaced = <<>>
    /\ links = 0
    /\ reads = <<>>
    /\ returned = NotReturned
    /\ FilterIdle

\* &s[a..b] is a valid range
ValidRange(t, a, b) == 0 <= a /\ a <= b /\ b <= Len(t)

\* SpliceLink with the cursor moved to the end of the output instead of the
\* end of the link in the source
SpliceLink_CursorByOutput(t, out, cursor, playpen, text) ==
    [replaced |-> out \o Slice(t, cursor, playpen.start_index) \o text,
     previous_end_index |-> Len(out \o Slice(t, cursor, playpen.start_index) \o text)]

\* SpliceLink with the cursor left at the start of the link
SpliceLink_CursorAtStart(t, out, cursor, playpen, text) ==
    [replaced |-> out \o Slice(t, cursor, playpen.start_index) \o text,
     previous_end_index |-> playpen.start_index]

\* the three statements of the loop body once the link is rendered:
\* push the span before the link, push the rendered text, move the cursor
SpliceLink(t, out, cursor, playpen, text) ==
    [replaced |-> out \o Slice(t, cursor, playpen.start_index) \o text,
     previous_end_index |-> playpen.end_index]

\* LoopBody with skip and brace_count of the filter kept from one rendered
\* file to the next
LoopBody_SharedFilterState ==
    /\ pc = "loop"
    /\ LET nxt     == LinkIterNext(s, links)
           playpen == nxt.item
       IN  /\ playpen.some
           /\ links' = nxt.pos
           /\ LET rd     == read_to_string(playpen.link)
                  copied == replaced \o Slice(s, previous_end_index, playpen.start_index)
              IN  /\ reads' = reads \o <<[path |-> playpen.link, ok |-> rd.ok]>>
                  /\ IF ~rd.ok
                     THEN /\ pc' = "done"
                          /\ returned' = [tag |-> "Err", error |-> rd.error]
                          /\ replaced' = copied
                          /\ UNCHANGED <<previous_end_index, skip, brace_count>>
                     ELSE LET f == FilterLoop([skip |-> skip, brace_count |-> brace_count,
                                               result |-> <<>>, panicked |-> FALSE],
                                              Lines(rd.contents), FeatureTest, overflow_checks)
                          IN  /\ skip' = f.skip
                              /\ brace_count' = f.brace_count
                              /\ IF f.panicked
                                 THEN /\ pc' = "panicked"
                                      /\ replaced' = copied
                                      /\ UNCHANGED <<previous_end_index, returned>>
                                 ELSE /\ replaced' = copied \o f.result
                                      /\ previous_end_index' = playpen.end_index
                                      /\ UNCHANGED <<pc, returned>>
    /\ UNCHANGED <<overflow_checks, s, contents, fpc, lineno, result>>

\* one iteration of `for playpen in find_links(s)`
LoopBody ==
    /\ pc = "loop"
    /\ LET nxt     == LinkIterNext(s, links)
           playpen == nxt.item
       IN  /\ playpen.some
           /\ links' = nxt.pos
           /\ IF ~ValidRange(s, previous_end_index, playpen.start_index)
              THEN /\ pc' = "panicked"
                   /\ UNCHANGED <<previous_end_index, replaced, reads, returned>>
              ELSE LET r == render_with_path(playpen, overflow_checks)
                       copied == replaced \o Slice(s, previous_end_index, playpen.start_index)
                   IN  /\ reads' = reads \o r.reads
                       /\ CASE r.tag = "Err" ->
                                 /\ pc' = "done"
                                 /\ returned' = [tag |-> "Err", error |-> r.error]
                                 /\ replaced' = copied
                                 /\ UNCHANGED previous_end_index
                            [] r.tag = "Panic" ->
                                 /\ pc' = "panicked"
                                 /\ replaced' = copied
                                 /\ UNCHANGED <<previous_end_index, returned>>
                            [] OTHER ->
                                 LET sp == SpliceLink(s, replaced, previous_end_index,
                                                      playpen, r.text)
                                 IN  /\ replaced' = sp.replaced
                                     /\ previous_end_index' = sp.previous_end_index
                                     /\ UNCHANGED <<pc, returned>>
    /\ UNCHANGED <<overflow_checks, s>>
    /\ UNCHANGED filterVars

\* LoopExit without the copy of the tail
LoopExit_NoTail ==
    /\ pc = "loop"
    /\ LET nxt == LinkIterNext(s, links)
       IN  /\ ~nxt.item.some
           /\ links' = nxt.pos
           /\ replaced' = replaced
           /\ returned' = [tag |-> "Ok", text |-> replaced']
           /\ pc' = "done"
    /\ UNCHANGED <<overflow_checks, s, previous_end_index, reads>>
    /\ UNCHANGED filterVars

\* the iterator is exhausted: copy the tail and return
LoopExit ==
    /\ pc = "loop"
    /\ LET nxt == LinkIterNext(s, links)
       IN  /\ ~nxt.item.some
           /\ links' = nxt.pos
           /\ IF ~ValidRange(s, previous_end_index, Len(s))
              THEN /\ pc' = "panicked"
                   /\ UNCHANGED <<replaced, returned>>
              ELSE /\ replaced' = replaced \o Slice(s, previous_end_index, Len(s))
                   /\ returned' = [tag |-> "Ok", text |-> replaced']
                   /\ pc' = "done"
    /\ UNCHANGED <<overflow_checks, s, previous_end_index, reads>>
    /\ UNCHANGED filterVars

Next == LoopBody \/ LoopExit

Spec == Init /\ [][Next]_vars

\* ------------------------------------------------------------------------
\* filter_features, line by line
\* ------------------------------------------------------------------------
\* entry of filter_features(contents, "test")
InitFilter ==
    /\ overflow_checks \in BOOLEAN
    /\ contents \in FilterInputs
    /\ fpc = "loop"
    /\ lineno = 0
    /\ skip = FilterStart.skip
    /\ brace_count = FilterStart.brace_count
    /\ result = FilterStart.result
    /\ EngineIdle

\* one iteration of `for line in contents.lines()`
FilterStep ==
    /\ fpc = "loop"
    /\ lineno < Len(Lines(contents))
    /\ LET st == FilterLine([skip |-> skip, brace_count |-> brace_count,
                             result |-> result, panicked |-> FALSE],
                            Lines(contents)[lineno + 1], FeatureTest, overflow_checks)
       IN  /\ lineno' = lineno + 1
           /\ skip' = st.skip
           /\ brace_count' = st.brace_count
           /\ result' = st.result
           /\ fpc' = IF st.panicked THEN "panicked" ELSE "loop"
    /\ UNCHANGED <<overflow_checks, contents>>
    /\ UNCHANGED engineVars

\* the lines are exhausted: return result
FilterReturn ==
    /\ fpc = "loop"
    /\ lineno = Len(Lines(contents))
    /\ fpc' = "done"
    /\ UNCHANGED <<overflow_checks, contents, lineno, skip, brace_count, result>>
    /\ UNCHANGED engineVars

NextFilter == FilterStep \/ FilterReturn

SpecFilter == InitFilter /\ [][NextFilter]_vars

\* ------------------------------------------------------------------------
\* Properties of replace_all (checked under Spec)
\* ------------------------------------------------------------------------
Returned(tag) == pc = "done" /\ returned.tag = tag

\* w occurs in t
Contains(t, w) == \E i \in 0..(Len(t) - Len(w)) : StartsWithAt(t, i, w)

\* the resolver output of a link
Rendered(lnk) == render_with_path(lnk, overflow_checks)

AllResolve(t) ==
    \A i \in 1..Len(find_links(t)) : Rendered(find_links(t)[i]).tag = "Ok"

SpanLen(lnk) == lnk.end_index - lnk.start_index

\* prefix0 + R1 + prefix1 + ... + Rn + suffix, from the complete scan
RECURSIVE ExpectedSplice(_, _, _)
ExpectedSplice(t, cursor, ls) ==
    IF ls = <<>> THEN Slice(t, cursor, Len(t))
    ELSE Slice(t, cursor, Head(ls).start_index) \o Rendered(Head(ls)).text
            \o ExpectedSplice(t, Head(ls).end_index, Tail(ls))

\* the offset in the output of the source offset p, which lies outside every link
OutOffset(t, p) ==
    LET ls == find_links(t)
    IN  p + Sum([i \in 1..Len(ls) |->
                   IF ls[i].end_index <= p
                   THEN Len(Rendered(ls[i]).text) - SpanLen(ls[i]) ELSE 0])

\* the source span [a, b) is found unchanged at its place in the output
CopiedVerbatim(t, out, a, b) ==
    Slice(out, OutOffset(t, a), OutOffset(t, a) + (b - a)) = Slice(t, a, b)

\* C1: when the scan of s yields at least one directive and all of them
\* resolve, replace_all returns exactly
\*   s[0..D1.start) + R1 + s[D1.end..D2.start) + ... + Rn + s[Dn.end..len(s))
\* whatever the lengths of the Ri.
C1_SpliceCorrect ==
    (pc = "done" /\ Len(find_links(s)) >= 1 /\ AllResolve(s))
        => returned = [tag |-> "Ok", text |-> ExpectedSplice(s, 0, find_links(s))]

\* two directives resolved, one to a text shorter and one to a text longer
\* than its span
C1_Witness ==
    /\ Returned("Ok")
    /\ Len(find_links(s)) >= 2
    /\ \E i, j \in 1..Len(find_links(s)) :
          /\ Len(Rendered(find_links(s)[i]).text) < SpanLen(find_links(s)[i])
          /\ Len(Rendered(find_links(s)[j]).text) > SpanLen(find_links(s)[j])

\* index of the first directive of t whose file cannot be read, 0 if none
FirstFailing(t) ==
    LET ls  == find_links(t)
        bad == {i \in 1..Len(ls) : ~read_to_string(ls[i].link).ok}
    IN  IF bad = {} THEN 0 ELSE SetMin(bad)

\* C2: when the read fails for the k-th directive (the earlier ones having
\* resolved), replace_all returns that error and no text, and no read is
\* attempted after the k-th.
C2_AtomicFailure ==
    LET ls == find_links(s)
        k  == FirstFailing(s)
    IN  (k > 0 /\ \A i \in 1..(k - 1) : Rendered(ls[i]).tag = "Ok")
          => /\ Len(reads) <= k
             /\ pc # "panicked"
             /\ (pc = "done" => Len(reads) = k)
             /\ (Len(reads) = k =>
                    /\ reads[k] = [path |-> ls[k].link, ok |-> FALSE]
                    /\ pc = "done"
                    /\ returned = [tag |-> "Err", error |-> read_to_string(ls[k].link).error])

\* an error returned after an earlier directive was resolved and with a later
\* directive left unresolved
C2_Witness ==
    /\ Returned("Err")
    /\ FirstFailing(s) >= 2
    /\ Len(find_links(s)) > FirstFailing(s)
    /\ Len(reads) = FirstFailing(s)

\* some context of the error mentions w
ErrorMentions(err, w) == \E i \in 1..Len(err.context) : Contains(err.context[i], w)

\* C3: the error returned for an unreadable target identifies the offending
\* path and the raw text of the directive.
C3_ErrorNamesPath ==
    Returned("Err")
        => LET lnk == find_links(s)[Len(reads)]
           IN  /\ ErrorMentions(returned.error, lnk.link)
               /\ ErrorMentions(returned.error, lnk.link_text)

\* offsets of the backslashes that immediately precede a directive token
EscapedTokens(t) ==
    {p \in 0..(Len(t) - 1) : At(t, p) = "\\" /\ MatchLink(t, p + 1).matched}

\* C4: a directive token immediately preceded by a backslash is never emitted
\* by the scanner, triggers no read, and stays verbatim (with its backslash)
\* in the output.
C4_EscapePreserved ==
    \A p \in EscapedTokens(s) :
        /\ \A i \in 1..Len(reads) : find_links(s)[i].start_index # p + 1
        /\ Returned("Ok")
              => CopiedVerbatim(s, returned.text, p, MatchLink(s, p + 1).end)

\* offsets of the well-formed directives whose kind is not includehidetest
UnknownTokens(t) ==
    {p \in 0..(Len(t) - 1) :
        MatchLink(t, p).matched /\ MatchLink(t, p).typ # KindIncludeHideTest}

\* C5: a well-formed directive of another kind is not emitted by the scanner,
\* causes no read and no error, stays unchanged in the output, and the
\* directives around it are still processed.
C5_UnknownKindPassThrough ==
    LET ls == find_links(s)
    IN  \A p \in UnknownTokens(s) :
            LET m == MatchLink(s, p)
            IN  /\ \A i \in 1..Len(ls) :
                       ls[i].end_index <= p \/ ls[i].start_index >= m.end
                /\ Len(reads) <= Len(ls)
                /\ \A i \in 1..Len(reads) : reads[i].path = ls[i].link
                /\ Returned("Err") => ~reads[Len(reads)].ok
                /\ Returned("Ok")
                      => /\ CopiedVerbatim(s, returned.text, p, m.end)
                         /\ Len(reads) = Len(ls)

\* a directive of unknown kind between two directives that were both resolved
C5_Witness ==
    /\ Returned("Ok")
    /\ \E p \in UnknownTokens(s) :
          \E i, j \in 1..Len(find_links(s)) :
              /\ find_links(s)[i].end_index <= p
              /\ find_links(s)[j].start_index >= MatchLink(s, p).end
              /\ Len(reads) = Len(find_links(s))

\* t holds no directive token, escaped or not
DirectiveFree(t) == \A p \in 0..Len(t) : ~MatchAt(t, p).matched

\* C6: on a text without directive syntax replace_all succeeds, reads no
\* file and returns the text unchanged.
C6_IdentityOnDirectiveFree ==
    DirectiveFree(s)
        => /\ reads = <<>>
           /\ pc # "panicked"
           /\ pc = "done" => returned = [tag |-> "Ok", text |-> s]

\* a directive-free text with braces in it was returned
C6_Witness ==
    /\ DirectiveFree(s)
    /\ Returned("Ok")
    /\ Contains(s, <<"{", "{">>)
    /\ Len(s) >= 3

\* C10: directives are scanned in the original source only: every read is
\* the read of a directive of s, in scan order, and a replacement text that
\* holds directive syntax is in the output as rendered.
C10_SinglePass ==
    LET ls == find_links(s)
    IN  /\ Len(reads) <= Len(ls)
        /\ \A i \in 1..Len(reads) : reads[i].path = ls[i].link
        /\ Returned("Ok")
              => /\ Len(reads) = Len(ls)
                 /\ \A i \in 1..Len(ls) :
                        Slice(returned.text, OutOffset(s, ls[i].start_index),
                              OutOffset(s, ls[i].start_index) + Len(Rendered(ls[i]).text))
                          = Rendered(ls[i]).text

\* a text was returned that holds a directive which came from a file
C10_Witness ==
    /\ Returned("Ok")
    /\ \E i \in 1..Len(find_links(s)) :
          find_links(Rendered(find_links(s)[i]).text) # <<>>
    /\ find_links(returned.text) # <<>>

\* ------------------------------------------------------------------------
\* Properties of filter_features (checked under SpecFilter)
\* ------------------------------------------------------------------------
InLines == Lines(contents)
OutLines == Lines(result)

\* the lines of the output that carry the suppression prefix of their input line
Suppressed ==
    {i \in 1..Len(OutLines) : i <= Len(InLines) /\ OutLines[i] = Prefixed(InLines[i])}

\* C7 as stated: on the six-line scenario exactly three lines, from the
\* marker line through the closing brace of b, are prefixed, and fn a and
\* fn c are emitted unchanged.
C7_ThreeLinesSuppressed ==
    (contents = Scenario /\ fpc = "done")
        => /\ Len(OutLines) = 6
           /\ OutLines[1] = ScenarioLines[1]
           /\ OutLines[6] = ScenarioLines[6]
           /\ Suppressed \subseteq 2..5
           /\ {2, 5} \subseteq Suppressed
           /\ Cardinality(Suppressed) = 3

\* C7 amended: on the six-line scenario exactly the four lines from the
\* marker line through the closing brace of b are prefixed, and fn a and
\* fn c are emitted unchanged.
C7_FourLinesSuppressed ==
    (contents = Scenario /\ fpc = "done")
        => /\ Len(OutLines) = 6
           /\ OutLines[1] = ScenarioLines[1]
           /\ OutLines[6] = ScenarioLines[6]
           /\ Suppressed = 2..5
           /\ result = Concat([i \in 1..6 |->
                                (IF i \in 2..5 THEN Prefixed(ScenarioLines[i])
                                 ELSE ScenarioLines[i]) \o <<"\n">>])

\* the filter returned on the scenario
C7_Witness ==
    /\ contents = Scenario
    /\ fpc = "done"
    /\ lineno = 6
    /\ ~skip

\* number of the first line that matches re_start, 0 if there is none
FirstMarker(ls) ==
    LET ms == {i \in 1..Len(ls) : re_start(ls[i], FeatureTest)}
    IN  IF ms = {} THEN 0 ELSE SetMin(ms)

BraceFree(line) == CountChar(line, "{") = 0 /\ CountChar(line, "}") = 0

\* C8 as stated: when the marker line is followed only by lines that open no
\* brace, the block never closes: skipping stays true and every line from
\* the marker on is emitted with the prefix.
C8_NeverCloses ==
    LET m == FirstMarker(InLines)
    IN  (/\ m > 0
         /\ \A j \in (m + 1)..Len(InLines) : CountChar(InLines[j], "{") = 0
         /\ lineno >= m
         /\ fpc # "panicked")
          => /\ skip
             /\ \A j \in m..lineno : OutLines[j] = Prefixed(InLines[j])

\* C8 amended: when the line after the marker line holds no brace, the block
\* closes right after that line: that line is emitted with the prefix,
\* skipping becomes false with brace_count 0, and the next line is emitted
\* unchanged unless it is itself a marker line.
C8_ClosesAfterBraceFreeLine ==
    LET m == FirstMarker(InLines)
    IN  (m > 0 /\ m < Len(InLines) /\ BraceFree(InLines[m + 1]))
          => /\ (lineno <= m + 2 => fpc # "panicked")
             /\ (lineno = m => skip /\ brace_count = 0)
             /\ (lineno >= m + 1 => OutLines[m + 1] = Prefixed(InLines[m + 1]))
             /\ (lineno = m + 1 => ~skip /\ brace_count = 0)
             /\ (lineno >= m + 2 =>
                    OutLines[m + 2] = IF re_start(InLines[m + 2], FeatureTest)
                                      THEN Prefixed(InLines[m + 2])
                                      ELSE InLines[m + 2])

\* a marker line, a brace-free line, and a third line that came out unchanged
C8_Witness ==
    LET m == FirstMarker(InLines)
    IN  /\ m > 0
        /\ m + 2 <= Len(InLines)
        /\ BraceFree(InLines[m + 1])
        /\ ~re_start(InLines[m + 2], FeatureTest)
        /\ fpc = "done"
        /\ OutLines[m + 1] = Prefixed(InLines[m + 1])
        /\ OutLines[m + 2] = InLines[m + 2]

\* C9: for every input with lines L1..Ln the filter returns n lines in the
\* same order, each ended by a line feed; output line i is Li or "# " + Li,
\* and it is Li for the lines before the first marker line.
C9_LinePreservation ==
    /\ fpc # "panicked"
    /\ fpc = "done" =>
          /\ Len(OutLines) = Len(InLines)
          /\ result = Concat([i \in 1..Len(InLines) |-> OutLines[i] \o <<"\n">>])
          /\ \A i \in 1..Len(InLines) :
                /\ OutLines[i] \in {InLines[i], Prefixed(InLines[i])}
                /\ (FirstMarker(InLines) = 0 \/ i < FirstMarker(InLines))
                      => OutLines[i] = InLines[i]

\* the line the loop of filter_features consumes next
NextLine == InLines[lineno + 1]

\* C11: a marker line met while not skipping sets skip without changing
\* brace_count; while skipping every line, marker line or not, is emitted
\* with the prefix, adds its opening and subtracts its closing braces, and
\* skip becomes false exactly when brace_count is 0 after the line.
C11_BlockExtent ==
    [][(fpc = "loop" /\ lineno' = lineno + 1)
          => IF skip
             THEN /\ fpc' = "loop"
                  /\ result' = result \o Prefixed(NextLine) \o <<"\n">>
                  /\ brace_count' = brace_count + CountChar(NextLine, "{")
                                                - CountChar(NextLine, "}")
                  /\ skip' = (brace_count' # 0)
             ELSE re_start(NextLine, FeatureTest)
                     => /\ fpc' = "loop"
                        /\ result' = result \o Prefixed(NextLine) \o <<"\n">>
                        /\ brace_count' = brace_count
                        /\ skip']_vars

\* C12: a line that closes more braces than are open neither makes the
\* filter fail nor wraps brace_count around (a negative brace_count stands
\* for a wrapped usize); the filter goes on to the end of the input.
C12_NoFailNoWrap ==
    /\ fpc # "panicked"
    /\ brace_count >= 0
    /\ fpc = "done" => lineno = Len(InLines) /\ Len(OutLines) = Len(InLines)

\* ------------------------------------------------------------------------
\* Properties of the scan and of the cursor (checked under Spec)
\* ------------------------------------------------------------------------
\* the links of t are well-formed spans, disjoint and in increasing order
OrderedSpans(t) ==
    LET ls == find_links(t)
    IN  /\ \A i \in 1..Len(ls) :
              /\ 0 <= ls[i].start_index
              /\ ls[i].start_index < ls[i].end_index
              /\ ls[i].end_index <= Len(t)
        /\ \A i \in 1..(Len(ls) - 1) : ls[i].end_index <= ls[i + 1].start_index

\* every slice replace_all is about to take is a valid range
CursorInRange ==
    /\ 0 <= previous_end_index
    /\ previous_end_index <= Len(s)
    /\ pc = "loop" =>
          LET nxt == LinkIterNext(s, links)
          IN  nxt.item.some =>
                 /\ previous_end_index <= nxt.item.start_index
                 /\ nxt.item.start_index < nxt.item.end_index
                 /\ nxt.item.end_index <= Len(s)

\* C13: every Directive of the scan has start_index < end_index <= len(s),
\* the directives are disjoint and ordered by start_index, and the cursor of
\* replace_all never decreases and never passes the next directive's start
\* nor the end of s.
C13_OrderedScanAndCursor ==
    /\ [](OrderedSpans(s) /\ CursorInRange)
    /\ [][previous_end_index' >= previous_end_index]_vars

\* two directives were spliced and the cursor stands at the end of the
\* second, before the end of s
C13_Witness ==
    /\ Returned("Ok")
    /\ Len(find_links(s)) >= 2
    /\ previous_end_index = find_links(s)[Len(find_links(s))].end_index
    /\ previous_end_index > find_links(s)[1].end_index
    /\ previous_end_index < Len(s)

\* ------------------------------------------------------------------------
\* The filter state does not outlive a file (checked under Spec)
\* ------------------------------------------------------------------------
\* the filter run on the file of a link from the initial state
FreshFilter(lnk) ==
    FilterLoop(FilterStart, Lines(Files[lnk.link]), FeatureTest, overflow_checks)

\* end of the host text that follows the i-th link
HostSpanEnd(t, i) ==
    IF i < Len(find_links(t)) THEN find_links(t)[i + 1].start_index ELSE Len(t)

\* C14: every resolver invocation runs the filter from skip = FALSE and
\* brace_count = 0: no filter state is left between directives, the text put
\* in place of each directive is its file filtered from the initial state,
\* whatever block an earlier file left open, and the host text after each
\* directive is copied unchanged.
C14_FilterStatePerFile ==
    LET ls == find_links(s)
    IN  /\ FilterIdle
        /\ Returned("Ok") =>
              \A j \in 1..Len(ls) :
                  /\ Slice(returned.text, OutOffset(s, ls[j].start_index),
                           OutOffset(s, ls[j].start_index) + Len(FreshFilter(ls[j]).result))
                       = FreshFilter(ls[j]).result
                  /\ CopiedVerbatim(s, returned.text, ls[j].end_index, HostSpanEnd(s, j))

\* a file that leaves its block open, then a file whose line came out without
\* the prefix, then host text
C14_Witness ==
    LET ls == find_links(s)
    IN  /\ Returned("Ok")
        /\ \E i, j \in 1..Len(ls) :
              /\ i < j
              /\ FreshFilter(ls[i]).skip
              /\ Files[ls[j].link] # <<>>
              /\ FreshFilter(ls[j]).result = Files[ls[j].link] \o <<"\n">>
              /\ ls[j].end_index < Len(s)
              /\ Contains(returned.text, FreshFilter(ls[j]).result \o Slice(s, ls[j].end_index, Len(s)))

\* ------------------------------------------------------------------------
\* Completeness of the scan (checked under Spec)
\* ------------------------------------------------------------------------
\* offsets of the well-formed includehidetest directives that no backslash
\* precedes
PlainTokens(t) ==
    {p \in 0..(Len(t) - 1) :
        /\ MatchLink(t, p).matched
        /\ from_capture(t, MatchLink(t, p)).some
        /\ At(t, p - 1) # "\\"}

\* C15: an escaped directive consumes its own span only: every well-formed
\* includehidetest directive that is not escaped is emitted by the scanner
\* and replaced, also when it follows an escaped directive on the same line.
C15_ScannerComplete ==
    Returned("Ok") =>
        \A p \in PlainTokens(s) :
            \E i \in 1..Len(reads) :
                /\ i <= Len(find_links(s))
                /\ find_links(s)[i].start_index = p
                /\ find_links(s)[i].end_index = MatchLink(s, p).end
                /\ reads[i].path = FirstToken(MatchLink(s, p).rest)

====
